---- MODULE Spec2Model ----
(***************************************************************************)
(* Model of src/impermeability_change.py: the function imperv_change,     *)
(* which composes Earth Engine raster operations over the NLCD 2001 and   *)
(* NLCD 2011 impervious bands and returns the fraction of the region's    *)
(* area whose imperviousness increased.                                    *)
(*                                                                         *)
(* A raster is a function from pixels to [valid, value]; a masked pixel   *)
(* has valid = FALSE.  A region is a list of features (the collection     *)
(* handed to reduceRegions), each feature the set of pixels it covers.    *)
(* Every statement of the function is one step of the invocation; the     *)
(* backend may be unreachable at any step.                                 *)
(***************************************************************************)
EXTENDS Integers, Sequences, FiniteSets, TLC

\* ---------------------------------------------------------------- bounds
NPix == 2
MaxFeatures == 2

Pixels == 1..NPix
\* percentages of imperviousness a dataset pixel may hold
ImpervVals == {20, 45}

\* ------------------------------------------------------------- constants
\* the "valid pixel" threshold of line 27: imperv_difference.gt(-999)
ValidThreshold == 0 - 999
\* the "increase" threshold of line 29: imperv_difference.gt(0)
IncreaseThreshold == 0
\* the list index of lines 39 and 46: .get(0)
FeatureIndex == 0

\* ---------------------------------------------------------------- rasters
Masked == [valid |-> FALSE, value |-> 0]
Px(v) == [valid |-> TRUE, value |-> v]
DatasetImages == [Pixels -> {Masked} \cup {Px(v) : v \in ImpervVals}]
NoImage == << >>
NoNumber == 0 - 1

Features == (SUBSET Pixels) \ {{}}
Regions == UNION {[1..n -> Features] : n \in 0..MaxFeatures}
NoRegion == << >>

\* ee.Image.pixelArea(): the ground area of every pixel, defined everywhere
pixelArea == [p \in Pixels |-> Px(900 + p)]

\* image.clip(region): pixels outside the region's geometry are masked
ImgClip(img, region) ==
  [p \in Pixels |->
     IF \E i \in 1..Len(region) : p \in region[i] THEN img[p] ELSE Masked]

\* the operands of the subtraction exchanged
ImgSubtractReversed(a, b) ==
  [p \in Pixels |->
     IF a[p].valid /\ b[p].valid THEN Px(b[p].value - a[p].value) ELSE Masked]

\* a.subtract(b): defined where both inputs are defined
ImgSubtract(a, b) ==
  [p \in Pixels |->
     IF a[p].valid /\ b[p].valid THEN Px(a[p].value - b[p].value) ELSE Masked]

\* a.multiply(b): defined where both inputs are defined
ImgMultiply(a, b) ==
  [p \in Pixels |->
     IF a[p].valid /\ b[p].valid THEN Px(a[p].value * b[p].value) ELSE Masked]

\* gte in the place of gt
ImgGte(a, c) ==
  [p \in Pixels |->
     IF a[p].valid THEN Px(IF a[p].value >= c THEN 1 ELSE 0) ELSE Masked]

\* a.gt(c): 1 where the value exceeds c, 0 elsewhere; masked where a is
ImgGt(a, c) ==
  [p \in Pixels |->
     IF a[p].valid THEN Px(IF a[p].value > c THEN 1 ELSE 0) ELSE Masked]

\* a.updateMask(m): a pixel stays defined only where m is defined and non-zero
ImgUpdateMask(a, m) ==
  [p \in Pixels |->
     IF a[p].valid /\ m[p].valid /\ m[p].value # 0 THEN a[p] ELSE Masked]

RECURSIVE SumValid(_, _)
\* ee.Reducer.sum() over a set of pixels: masked pixels are skipped
SumValid(img, S) ==
  IF S = {} THEN 0
  ELSE LET p == CHOOSE q \in S : TRUE
       IN  (IF img[p].valid THEN img[p].value ELSE 0) + SumValid(img, S \ {p})

\* every feature given the sum over the whole region
FeatureSumsWhole(img, region) ==
  [i \in 1..Len(region) |->
     SumValid(img, UNION {region[j] : j \in 1..Len(region)})]

\* img.reduceRegions(region, Reducer.sum()).aggregate_array('sum'):
\* one sum per feature, in the order of the features
FeatureSums(img, region) ==
  [i \in 1..Len(region) |-> SumValid(img, region[i])]

\* ee.List.get(i): zero-based
ListGet(l, i) == l[i + 1]

\* ---------------------------------------------------------------- results
NoOutcome == [kind |-> "none", num |-> 0, den |-> 0]
ErrorOutcome == [kind |-> "error", num |-> 0, den |-> 0]
NaNOutcome == [kind |-> "nan", num |-> 0, den |-> 0]
Ratio(n, d) == [kind |-> "ratio", num |-> n, den |-> d]

RECURSIVE Gcd(_, _)
Gcd(a, b) == IF b = 0 THEN a ELSE Gcd(b, a % b)

VARIABLES
  NLCD2001,                    \* backend asset 'USGS/NLCD/NLCD2001', band impervious
  NLCD2011,                    \* backend asset 'USGS/NLCD/NLCD2011', band impervious
  divByZero,                   \* what the backend's divide yields for 0/0
  backend_up,                  \* whether the backend answers
  pc,                          \* position of the invocation
  urban_region,                \* the argument
  nlcd_2001, nlcd_2011,
  nlcd_2001_imperv, nlcd_2011_imperv,
  imperv_difference,
  imperv_difference_masked,
  urban_pixelarea,
  increased_imperv_pixelarea,
  increased_imperv_area,
  urban_area,
  outcome,                     \* what the caller of the last invocation got
  first_call,                  \* history: region and value of the first returned call
  compared                     \* history: a later call has returned for that region

images == <<nlcd_2001, nlcd_2011, nlcd_2001_imperv, nlcd_2011_imperv,
            imperv_difference, imperv_difference_masked,
            urban_pixelarea, increased_imperv_pixelarea>>
numbers == <<increased_imperv_area, urban_area>>
backend == <<NLCD2001, NLCD2011, divByZero>>
history == <<first_call, compared>>
vars == <<NLCD2001, NLCD2011, divByZero, backend_up, pc, urban_region,
          nlcd_2001, nlcd_2011, nlcd_2001_imperv, nlcd_2011_imperv,
          imperv_difference, imperv_difference_masked,
          urban_pixelarea, increased_imperv_pixelarea,
          increased_imperv_area, urban_area, outcome, first_call, compared>>

NoCall == [region |-> NoRegion, outcome |-> NoOutcome]

\* numerator and denominator exchanged
DivideSwapped(a, b) ==
  IF a = 0
  THEN (IF divByZero = "nan" THEN NaNOutcome ELSE Ratio(0, 1))
  ELSE Ratio(b \div Gcd(b, a), a \div Gcd(b, a))

\* a.divide(b).getInfo(): the quotient as the caller receives it
Divide(a, b) ==
  IF b = 0
  THEN (IF divByZero = "nan" THEN NaNOutcome ELSE Ratio(0, 1))
  ELSE Ratio(a \div Gcd(a, b), b \div Gcd(a, b))

FreshLocals ==
  /\ nlcd_2001' = NoImage /\ nlcd_2011' = NoImage
  /\ nlcd_2001_imperv' = NoImage /\ nlcd_2011_imperv' = NoImage
  /\ imperv_difference' = NoImage /\ imperv_difference_masked' = NoImage
  /\ urban_pixelarea' = NoImage /\ increased_imperv_pixelarea' = NoImage
  /\ increased_imperv_area' = NoNumber /\ urban_area' = NoNumber

Init ==
  /\ NLCD2001 \in DatasetImages
  /\ NLCD2011 \in DatasetImages
  /\ divByZero \in {"nan", "zero"}
  /\ backend_up = TRUE
  /\ pc = "idle"
  /\ urban_region = NoRegion
  /\ nlcd_2001 = NoImage /\ nlcd_2011 = NoImage
  /\ nlcd_2001_imperv = NoImage /\ nlcd_2011_imperv = NoImage
  /\ imperv_difference = NoImage /\ imperv_difference_masked = NoImage
  /\ urban_pixelarea = NoImage /\ increased_imperv_pixelarea = NoImage
  /\ increased_imperv_area = NoNumber /\ urban_area = NoNumber
  /\ outcome = NoOutcome
  /\ first_call = NoCall
  /\ compared = FALSE

\* the exception caught and a value returned in its place
RaiseSwallowed ==
  /\ pc' = "returned"
  /\ outcome' = Ratio(0, 1)
  /\ FreshLocals
  /\ UNCHANGED <<backend, backend_up, urban_region, history>>

\* the exception of a backend call leaves the function: nothing catches it
Raise ==
  /\ pc' = "raised"
  /\ outcome' = ErrorOutcome
  /\ FreshLocals
  /\ UNCHANGED <<backend, backend_up, urban_region, history>>

\* line 6: the caller invokes imperv_change(urban_region)
Call ==
  /\ pc \in {"idle", "returned", "raised"}
  /\ \E r \in Regions : urban_region' = r
  /\ pc' = "load"
  /\ outcome' = NoOutcome
  /\ FreshLocals
  /\ UNCHANGED <<backend, backend_up, history>>

\* lines 9-10
LoadImages ==
  /\ pc = "load"
  /\ IF backend_up
     THEN /\ nlcd_2001' = NLCD2001
          /\ nlcd_2011' = NLCD2011
          /\ pc' = "clip"
          /\ UNCHANGED <<backend, backend_up, urban_region, outcome, history,
                         nlcd_2001_imperv, nlcd_2011_imperv, imperv_difference,
                         imperv_difference_masked, urban_pixelarea,
                         increased_imperv_pixelarea, numbers>>
     ELSE Raise

\* lines 13-14
SelectClip ==
  /\ pc = "clip"
  /\ IF backend_up
     THEN /\ nlcd_2001_imperv' = ImgClip(nlcd_2001, urban_region)
          /\ nlcd_2011_imperv' = ImgClip(nlcd_2011, urban_region)
          /\ pc' = "subtract"
          /\ UNCHANGED <<backend, backend_up, urban_region, outcome, history,
                         nlcd_2001, nlcd_2011, imperv_difference,
                         imperv_difference_masked, urban_pixelarea,
                         increased_imperv_pixelarea, numbers>>
     ELSE Raise

\* the subtraction written back into the 2011 asset
SubtractInPlace ==
  /\ pc = "subtract"
  /\ IF backend_up
     THEN /\ imperv_difference' = ImgSubtract(nlcd_2011_imperv, nlcd_2001_imperv)
          /\ NLCD2011' = imperv_difference'
          /\ pc' = "mask"
          /\ UNCHANGED <<NLCD2001, divByZero, backend_up, urban_region, outcome,
                         history, nlcd_2001, nlcd_2011, nlcd_2001_imperv,
                         nlcd_2011_imperv, imperv_difference_masked,
                         urban_pixelarea, increased_imperv_pixelarea, numbers>>
     ELSE Raise

\* line 17
Subtract ==
  /\ pc = "subtract"
  /\ IF backend_up
     THEN /\ imperv_difference' = ImgSubtract(nlcd_2011_imperv, nlcd_2001_imperv)
          /\ pc' = "mask"
          /\ UNCHANGED <<backend, backend_up, urban_region, outcome, history,
                         nlcd_2001, nlcd_2011, nlcd_2001_imperv, nlcd_2011_imperv,
                         imperv_difference_masked, urban_pixelarea,
                         increased_imperv_pixelarea, numbers>>
     ELSE Raise

\* the masked raster assigned back to imperv_difference
UpdateMaskInPlace ==
  /\ pc = "mask"
  /\ IF backend_up
     THEN /\ imperv_difference_masked' =
               ImgUpdateMask(imperv_difference, imperv_difference)
          /\ imperv_difference' = imperv_difference_masked'
          /\ pc' = "urban_pixelarea"
          /\ UNCHANGED <<backend, backend_up, urban_region, outcome, history,
                         nlcd_2001, nlcd_2011, nlcd_2001_imperv, nlcd_2011_imperv,
                         urban_pixelarea, increased_imperv_pixelarea, numbers>>
     ELSE Raise

\* line 20
UpdateMask ==
  /\ pc = "mask"
  /\ IF backend_up
     THEN /\ imperv_difference_masked' =
               ImgUpdateMask(imperv_difference, imperv_difference)
          /\ pc' = "urban_pixelarea"
          /\ UNCHANGED <<backend, backend_up, urban_region, outcome, history,
                         nlcd_2001, nlcd_2011, nlcd_2001_imperv, nlcd_2011_imperv,
                         imperv_difference, urban_pixelarea,
                         increased_imperv_pixelarea, numbers>>
     ELSE Raise

\* the valid-area raster built from the masked difference
UrbanPixelAreaFromMasked ==
  /\ pc = "urban_pixelarea"
  /\ IF backend_up
     THEN /\ urban_pixelarea' =
               ImgMultiply(ImgGt(imperv_difference_masked, ValidThreshold), pixelArea)
          /\ pc' = "increased_pixelarea"
          /\ UNCHANGED <<backend, backend_up, urban_region, outcome, history,
                         nlcd_2001, nlcd_2011, nlcd_2001_imperv, nlcd_2011_imperv,
                         imperv_difference, imperv_difference_masked,
                         increased_imperv_pixelarea, numbers>>
     ELSE Raise

\* line 27
UrbanPixelArea ==
  /\ pc = "urban_pixelarea"
  /\ IF backend_up
     THEN /\ urban_pixelarea' =
               ImgMultiply(ImgGt(imperv_difference, ValidThreshold), pixelArea)
          /\ pc' = "increased_pixelarea"
          /\ UNCHANGED <<backend, backend_up, urban_region, outcome, history,
                         nlcd_2001, nlcd_2011, nlcd_2001_imperv, nlcd_2011_imperv,
                         imperv_difference, imperv_difference_masked,
                         increased_imperv_pixelarea, numbers>>
     ELSE Raise

\* line 29
IncreasedPixelArea ==
  /\ pc = "increased_pixelarea"
  /\ IF backend_up
     THEN /\ increased_imperv_pixelarea' =
               ImgMultiply(ImgGt(imperv_difference, IncreaseThreshold), pixelArea)
          /\ pc' = "reduce_increased"
          /\ UNCHANGED <<backend, backend_up, urban_region, outcome, history,
                         nlcd_2001, nlcd_2011, nlcd_2001_imperv, nlcd_2011_imperv,
                         imperv_difference, imperv_difference_masked,
                         urban_pixelarea, numbers>>
     ELSE Raise

\* lines 34-40: get(0) of an empty list is an error of the backend
ReduceIncreased ==
  /\ pc = "reduce_increased"
  /\ IF backend_up /\ Len(urban_region) > FeatureIndex
     THEN /\ increased_imperv_area' =
               ListGet(FeatureSums(increased_imperv_pixelarea, urban_region),
                       FeatureIndex)
          /\ pc' = "reduce_urban"
          /\ UNCHANGED <<backend, backend_up, urban_region, outcome, history,
                         images, urban_area>>
     ELSE Raise

\* lines 42-47
ReduceUrban ==
  /\ pc = "reduce_urban"
  /\ IF backend_up /\ Len(urban_region) > FeatureIndex
     THEN /\ urban_area' =
               ListGet(FeatureSums(urban_pixelarea, urban_region), FeatureIndex)
          /\ pc' = "divide"
          /\ UNCHANGED <<backend, backend_up, urban_region, outcome, history,
                         images, increased_imperv_area>>
     ELSE Raise

\* line 49
DivideGetInfo ==
  /\ pc = "divide"
  /\ IF backend_up
     THEN /\ outcome' = Divide(increased_imperv_area, urban_area)
          /\ pc' = "returned"
          /\ first_call' =
               IF first_call = NoCall
               THEN [region |-> urban_region, outcome |-> outcome']
               ELSE first_call
          /\ compared' =
               (compared \/ (first_call # NoCall /\ first_call.region = urban_region))
          /\ UNCHANGED <<backend, backend_up, urban_region, images, numbers>>
     ELSE Raise

\* the environment: the backend becomes unreachable, or reachable again
BackendDown ==
  /\ backend_up
  /\ backend_up' = FALSE
  /\ UNCHANGED <<backend, pc, urban_region, images, numbers, outcome, history>>

BackendUp ==
  /\ ~backend_up
  /\ backend_up' = TRUE
  /\ UNCHANGED <<backend, pc, urban_region, images, numbers, outcome, history>>

Next ==
  \/ Call
  \/ LoadImages
  \/ SelectClip
  \/ Subtract
  \/ UpdateMask
  \/ UrbanPixelArea
  \/ IncreasedPixelArea
  \/ ReduceIncreased
  \/ ReduceUrban
  \/ DivideGetInfo
  \/ BackendDown
  \/ BackendUp

Spec == Init /\ [][Next]_vars

\* ------------------------------------------------------------ vocabulary
\* what the claims speak of, read off the two datasets directly
Defined(p) == NLCD2001[p].valid /\ NLCD2011[p].valid
Change(p) == NLCD2011[p].value - NLCD2001[p].value
RegionPixels(r) == UNION {r[i] : i \in 1..Len(r)}
ValidIn(S) == {p \in S : Defined(p)}
IncreasedIn(S) == {p \in S : Defined(p) /\ Change(p) > 0}
DecreasedIn(S) == {p \in S : Defined(p) /\ Change(p) < 0}
UnchangedIn(S) == {p \in S : Defined(p) /\ Change(p) = 0}

RECURSIVE AreaOf(_)
AreaOf(S) ==
  IF S = {} THEN 0
  ELSE LET p == CHOOSE q \in S : TRUE
       IN  pixelArea[p].value + AreaOf(S \ {p})

\* the returned value is the quotient n / d
IsQuotient(o, n, d) ==
  o.kind = "ratio" /\ o.den > 0 /\ o.num * d = o.den * n

InCall == pc \notin {"idle", "returned", "raised"}

\* ----------------------------------------------------------------- claims

\* C1: for every region with non-zero valid area the call returns
\* increased_area / total_valid_area, both taken over all pixels of the region
\* that are defined in both years.
C1_RatioOverRegion ==
  (pc = "returned" /\ AreaOf(ValidIn(RegionPixels(urban_region))) # 0)
    => IsQuotient(outcome,
                  AreaOf(IncreasedIn(RegionPixels(urban_region))),
                  AreaOf(ValidIn(RegionPixels(urban_region))))

\* C2: every pixel counted by the increased-area raster is counted by the
\* valid-area raster, so 0 <= increased-area sum <= valid-area sum, and when the
\* valid-area sum is non-zero the returned ratio lies in [0, 1].
C2_RatioInUnitInterval ==
  /\ pc \in {"reduce_increased", "reduce_urban", "divide", "returned"}
       => \A p \in Pixels :
            (increased_imperv_pixelarea[p].valid
               /\ increased_imperv_pixelarea[p].value > 0)
              => /\ urban_pixelarea[p].valid
                 /\ urban_pixelarea[p].value >= increased_imperv_pixelarea[p].value
  /\ pc \in {"divide", "returned"}
       => 0 <= increased_imperv_area /\ increased_imperv_area <= urban_area
  /\ (pc = "returned" /\ urban_area # 0)
       => /\ outcome.kind = "ratio"
          /\ outcome.den > 0
          /\ 0 <= outcome.num
          /\ outcome.num <= outcome.den

C2_Witness ==
  /\ pc = "returned"
  /\ outcome.kind = "ratio"
  /\ 0 < outcome.num
  /\ outcome.num < outcome.den

\* C3: when the valid-area sum is zero the call ends in an error and never
\* returns a value.
C3_ZeroAreaIsError == pc = "returned" => urban_area # 0

SameCoverage(r) == \A p \in RegionPixels(r) : NLCD2001[p] = NLCD2011[p]

C7_SinglePixel ==
  \A p \in Pixels :
    (pc = "returned" /\ urban_region = <<{p}>> /\ Defined(p))
      => /\ Change(p) > 0
              => /\ increased_imperv_area = pixelArea[p].value
                 /\ urban_area = pixelArea[p].value
                 /\ IsQuotient(outcome, 1, 1)
         /\ Change(p) < 0
              => /\ increased_imperv_area = 0
                 /\ urban_area = pixelArea[p].value
                 /\ IsQuotient(outcome, 0, 1)

C7_Witness ==
  \E p \in Pixels :
    /\ pc = "returned"
    /\ urban_region = <<{p}>>
    /\ NLCD2001[p] = Px(20)
    /\ NLCD2011[p] = Px(45)
    /\ outcome = Ratio(1, 1)

\* C8: a call that returns for the region of the first returned call, after any
\* number of calls for this and other regions, returns the same value.
C8_SameRegionSameRatio ==
  (pc = "returned" /\ first_call.region = urban_region)
    => outcome = first_call.outcome

C8_Witness ==
  /\ pc = "returned"
  /\ compared
  /\ first_call.region = urban_region
  /\ outcome = first_call.outcome

\* C9: a step taken while the backend does not answer, or the list access for a
\* region without features, ends the invocation with the error; the error is the
\* caller's outcome, and after it only a new invocation follows.
C9_FailurePropagates ==
  [][/\ (InCall /\ ~backend_up /\ pc' # pc) => pc' = "raised"
     /\ (pc = "reduce_increased" /\ Len(urban_region) = 0 /\ pc' # pc)
          => pc' = "raised"
     /\ pc' = "raised" => outcome' = ErrorOutcome
     /\ (pc = "raised" /\ pc' # pc) => pc' = "load"]_vars

C9_Witness ==
  /\ pc = "raised"
  /\ ~backend_up
  /\ Len(urban_region) > 0
  /\ outcome = ErrorOutcome

====
